---- MODULE Spec2Model ----
(***************************************************************************)
(* A model of src/main.py: the batch video converter (VideoConverter).     *)
(* The batch driver (run / process_file), the job runner (convert_video)   *)
(* with the encoder child process it monitors, the probe (get_video_info), *)
(* the classifier (detect_color_profile) and the filter selection of       *)
(* build_ffmpeg_command.                                                   *)
(***************************************************************************)
EXTENDS Naturals, Sequences, FiniteSets

VARIABLES
    ffmpegOnPath,     \* shutil.which('ffmpeg') finds the encoder binary
    output_dir,       \* self.output_dir (None when not given)
    output_suffix,    \* self.output_suffix
    custom_lut_file,  \* self.custom_lut_file (None when not given)
    fsOut,            \* the paths that exist on disk, among the jobs' output paths
    files,            \* run(): files, the sorted list of discovered inputs
    i,                \* run(): the loop index (1-based; 0 before the loop)
    pc,               \* the position of main / run / process_file / convert_video
    stats,            \* self.stats (the counters and the byte accumulators)
    exit_status,      \* what main() returns (None while running)
    input_size,       \* process_file: input_size
    color_profile,    \* process_file: color_profile
    cmd,              \* convert_video: cmd (its -vf filter and its output path)
    duration,         \* convert_video: video_info.duration, in tenths of a second
    elapsed,          \* convert_video: time.time() - last_update, in ticks of 0.5 s
    enc,              \* convert_video: process, the encoder child being monitored
    live,             \* the loop indices whose encoder child process is still alive
    job,              \* what has happened to the current file so far (observation)
    hist,             \* what has happened in the run so far (observation)
    pure              \* the argument record of the pure-function specification

vars == <<ffmpegOnPath, output_dir, output_suffix, custom_lut_file, fsOut, files, i,
          pc, stats, exit_status, input_size, color_profile, cmd, duration, elapsed,
          enc, live, job, hist, pure>>

None == "None"

-----------------------------------------------------------------------------
(* Bounds of the model.                                                    *)

\* The largest number of files a directory listing holds.
MaxFiles == 2

\* The largest number of progress lines one encoder process writes.
MaxLines == 2

-----------------------------------------------------------------------------
(* Strings as the classifier sees them: sequences of characters, with      *)
(* str.lower() and the substring test `sub in s`.                          *)

UpperAlphabet == <<"A","B","C","D","E","F","G","H","I","J","K","L","M",
                   "N","O","P","Q","R","S","T","U","V","W","X","Y","Z">>

LowerAlphabet == <<"a","b","c","d","e","f","g","h","i","j","k","l","m",
                   "n","o","p","q","r","s","t","u","v","w","x","y","z">>

LowerChar(c) ==
    IF \E k \in 1..26 : UpperAlphabet[k] = c
    THEN LowerAlphabet[CHOOSE k \in 1..26 : UpperAlphabet[k] = c]
    ELSE c

Lower(s) == [k \in 1..Len(s) |-> LowerChar(s[k])]

Contains(sub, s) ==
    \E k \in 0..(Len(s) - Len(sub)) : SubSeq(s, k + 1, k + Len(sub)) = sub

S_unknown  == <<"u","n","k","n","o","w","n">>
S_bt709    == <<"b","t","7","0","9">>
S_BT709    == <<"B","T","7","0","9">>
S_bt2020   == <<"b","t","2","0","2","0">>
S_bt2020nc == <<"b","t","2","0","2","0","n","c">>
S_dlogm    == <<"d","l","o","g","m">>
S_dlog     == <<"d","-","l","o","g">>
S_DLog     == <<"D","-","L","o","g">>
S_smpte    == <<"s","m","p","t","e","1","7","0","m">>
S_arib     == <<"a","r","i","b","-","s","t","d","-","b","6","7">>
S_hlg      == <<"h","l","g">>
S_HLG      == <<"H","L","G">>
S_srgb     == <<"s","r","g","b">>
S_h264     == <<"h","2","6","4">>
S_h265     == <<"h","2","6","5">>
S_hevc     == <<"h","e","v","c">>
S_HEVC     == <<"H","E","V","C">>
S_prores   == <<"p","r","o","r","e","s">>
S_h264b    == <<"h","2","6","4","b">>

\* class VideoInfo: the defaults of the dataclass (duration in tenths of a second).
VideoInfo ==
    [duration |-> 0, color_space |-> S_unknown, color_primaries |-> S_unknown,
     color_transfer |-> S_unknown, width |-> 0, height |-> 0, codec_name |-> S_unknown]

-----------------------------------------------------------------------------
(* detect_color_profile: the ordered rules, first match wins.              *)

detect_color_profile_swapped(video_info) ==
    LET cs == Lower(video_info.color_space)
        cp == Lower(video_info.color_primaries)
        ct == Lower(video_info.color_transfer)
    IN  IF \/ Contains(S_dlogm, cs) \/ Contains(S_dlogm, ct)
           \/ Contains(S_dlog, cs) \/ Contains(S_dlog, ct)
           \/ /\ Contains(S_bt709, cp)
              /\ Contains(S_unknown, ct)
              /\ Lower(video_info.codec_name) \in {S_h264, S_h265, S_hevc}
        THEN "dlogm"
        ELSE IF \/ Contains(S_arib, ct) \/ Contains(S_hlg, ct)
                \/ (Contains(S_bt2020, cp) /\ Contains(S_arib, ct))
        THEN "hlg"
        ELSE IF \/ Contains(S_bt709, cs) \/ Contains(S_bt709, cp)
                \/ Contains(S_bt709, ct) \/ Contains(S_srgb, ct)
        THEN "rec709"
        ELSE "unknown"

detect_color_profile(video_info) ==
    LET cs == Lower(video_info.color_space)
        cp == Lower(video_info.color_primaries)
        ct == Lower(video_info.color_transfer)
    IN  IF \/ Contains(S_arib, ct) \/ Contains(S_hlg, ct)
           \/ (Contains(S_bt2020, cp) /\ Contains(S_arib, ct))
        THEN "hlg"
        ELSE IF \/ Contains(S_dlogm, cs) \/ Contains(S_dlogm, ct)
                \/ Contains(S_dlog, cs) \/ Contains(S_dlog, ct)
                \/ /\ Contains(S_bt709, cp)
                   /\ Contains(S_unknown, ct)
                   /\ Lower(video_info.codec_name) \in {S_h264, S_h265, S_hevc}
        THEN "dlogm"
        ELSE IF \/ Contains(S_bt709, cs) \/ Contains(S_bt709, cp)
                \/ Contains(S_bt709, ct) \/ Contains(S_srgb, ct)
        THEN "rec709"
        ELSE "unknown"

-----------------------------------------------------------------------------
(* build_ffmpeg_command: the LUT selection and the -vf filter.             *)

\* __init__: self.dlogm_lut and self.hlg_lut
dlogm_lut == "luts/DJI_DLogM_to_Rec709.cube"

hlg_lut == "luts/iPhone_2020_to_709_33.cube"

\* Python's truth value of self.custom_lut_file: None and '' are false.
Truthy(s) == s # None /\ s # ""

lut3d(lut_file) == "lut3d='" \o lut_file \o "'"

video_filter_no_override(lut, profile) ==
    IF profile = "dlogm" THEN lut3d(dlogm_lut)
    ELSE IF profile = "hlg" THEN lut3d(hlg_lut)
    ELSE IF profile = "rec709" THEN "scale"
    ELSE lut3d(dlogm_lut)

video_filter(lut, profile) ==
    IF Truthy(lut) THEN lut3d(lut)
    ELSE IF profile = "dlogm" THEN lut3d(dlogm_lut)
    ELSE IF profile = "hlg" THEN lut3d(hlg_lut)
    ELSE IF profile = "rec709" THEN "scale"
    ELSE lut3d(dlogm_lut)

\* The command line: the parts that vary, and the forced overwrite (-y).
build_ffmpeg_command(input_path, output_path, profile) ==
    [input |-> input_path, vf |-> video_filter(custom_lut_file, profile),
     overwrite |-> TRUE, output |-> output_path]

-----------------------------------------------------------------------------
(* Files and paths.                                                        *)

\* VideoConverter.EXTENSIONS
EXTENSIONS == {".mp4", ".mov", ".MP4", ".MOV"}

\* self.input_dir
input_dir == "in"

\* The names a directory listing is drawn from, in ascending order of name
\* (the order sorted() gives): a listing is a subset of them.
DirUniverse ==
    << [stem |-> "a", ext |-> ".mov"],
       [stem |-> "a", ext |-> ".mp4"],
       [stem |-> "b", ext |-> ".MP4"],
       [stem |-> "c", ext |-> ".mkv"] >>

DirNames == {DirUniverse[k] : k \in 1..Len(DirUniverse)}

\* get_video_files: the entries matching *{ext} for an ext of EXTENSIONS, sorted.
get_video_files(listing) ==
    LET Matches(f) == f \in listing /\ f.ext \in EXTENSIONS
    IN  SelectSeq(DirUniverse, Matches)

Listings ==
    {l \in SUBSET DirNames : Len(get_video_files(l)) <= MaxFiles}

\* input_path.stat().st_size: the size of each file on disk.
InputSizeOf(f) ==
    IF f.ext = ".mov" THEN 4 ELSE IF f.ext = ".mp4" THEN 0 ELSE 6

\* output_path.stat().st_size after the encoder wrote the file.
OutputSizeOf(f) ==
    IF f.ext = ".mov" THEN 2 ELSE IF f.ext = ".mp4" THEN 1 ELSE 3

output_path_keeps_ext(f) ==
    [dir  |-> IF output_dir # None THEN output_dir ELSE input_dir,
     name |-> f.stem \o output_suffix \o f.ext]

\* process_file: output_path
output_path_of(f) ==
    [dir  |-> IF output_dir # None THEN output_dir ELSE input_dir,
     name |-> f.stem \o output_suffix \o ".mp4"]

input_path_of(f) == [dir |-> input_dir, name |-> f.stem \o f.ext]

-----------------------------------------------------------------------------
(* The probe: what ffprobe answers, and get_video_info on that answer.     *)

SampleHlg ==
    [VideoInfo EXCEPT !.color_space = S_bt2020nc, !.color_primaries = S_bt2020,
                      !.color_transfer = S_arib, !.codec_name = S_hevc]

SampleDlogm ==
    [VideoInfo EXCEPT !.color_primaries = S_bt709, !.codec_name = S_hevc]

SampleRec709 ==
    [VideoInfo EXCEPT !.color_space = S_bt709, !.color_primaries = S_bt709,
                      !.color_transfer = S_bt709, !.codec_name = S_h264]

SampleOther ==
    [VideoInfo EXCEPT !.color_space = S_smpte, !.color_primaries = S_smpte,
                      !.color_transfer = S_smpte, !.codec_name = S_prores]

\* Durations in tenths of a second: none, half a second, two seconds.
Durations == {0, 5, 20}

ProbeInfos ==
    {[v EXCEPT !.duration = d] :
        v \in {SampleHlg, SampleDlogm, SampleRec709, SampleOther}, d \in Durations}

\* What running ffprobe and reading its answer can come to:
\*   absent     the binary is not there (subprocess.run raises FileNotFoundError)
\*   nonzero    it exits non-zero (check=True raises CalledProcessError)
\*   badjson    its output is no JSON (json.loads raises JSONDecodeError)
\*   nostreams  JSON without the 'streams' field (KeyError)
\*   noformat   a video stream, and no 'format' field (KeyError)
\*   novideo    no stream of codec_type 'video'
\*   ok         a video stream with its fields
ProbeFailureKinds == {"absent", "nonzero", "badjson", "nostreams", "noformat"}

ProbeResponses ==
    {[kind |-> k, info |-> VideoInfo] : k \in ProbeFailureKinds \cup {"novideo"}}
    \cup {[kind |-> "ok", info |-> v] : v \in ProbeInfos}

ProbeException(kind) ==
    CASE kind = "absent"    -> "FileNotFoundError"
      [] kind = "nonzero"   -> "CalledProcessError"
      [] kind = "badjson"   -> "JSONDecodeError"
      [] kind = "nostreams" -> "KeyError"
      [] kind = "noformat"  -> "KeyError"
      [] OTHER              -> None

\* get_video_info: except (subprocess.CalledProcessError, json.JSONDecodeError)
get_video_info_catches(exc) == exc \in {"CalledProcessError", "JSONDecodeError"}

\* get_video_info: the VideoInfo returned, or the exception that leaves it.
get_video_info(resp) ==
    LET exc == ProbeException(resp.kind)
    IN  IF exc = None
        THEN [raised |-> None,
              info |-> IF resp.kind = "ok" THEN resp.info ELSE VideoInfo]
        ELSE IF get_video_info_catches(exc)
        THEN [raised |-> None, info |-> VideoInfo]
        ELSE [raised |-> exc, info |-> VideoInfo]

-----------------------------------------------------------------------------
(* The encoder's progress lines, as the two regular expressions see them.  *)

\* has_time: the line matches out_time_ms=(\d+)
\* speed: "none" (no speed=([0-9.]+)x), "valid" (float() parses the group),
\*        "malformed" (the group matches and float() raises ValueError: "1.2.3")
ProgressLines ==
    {[has_time |-> FALSE, speed |-> "none"],
     [has_time |-> TRUE, speed |-> "none"],
     [has_time |-> TRUE, speed |-> "valid"],
     [has_time |-> TRUE, speed |-> "malformed"]}

\* convert_video: 0.5 seconds between renders, in ticks of 0.5 s.
GateTicks == 1

render_due_every_line(line, since_update) == line.has_time

\* convert_video: the line matches out_time_ms=(\d+) and
\* time.time() - last_update >= 0.5
render_due(line, since_update) == line.has_time /\ since_update >= GateTicks

\* show_encoding_progress: (time_sec * 100) // int(duration) divides by zero
\* for a duration in (0, 1).
show_encoding_progress_raises(d) == d > 0 /\ (d \div 10) = 0

-----------------------------------------------------------------------------
(* The counters, the exception handlers and the exit status.               *)

StatsInit == [successful |-> 0, failed |-> 0, input_size |-> 0, output_size |-> 0]

stats_forget(s) == s

stats_on_success_without_output(s, in, out) ==
    [s EXCEPT !.successful = @ + 1, !.input_size = @ + in]

\* process_file, lines 269-271
stats_on_success(s, in, out) ==
    [s EXCEPT !.successful = @ + 1, !.input_size = @ + in, !.output_size = @ + out]

\* process_file, line 275: convert_video returned False
stats_on_false(s) == [s EXCEPT !.failed = @ + 1]

\* process_file, line 281: the except Exception handler
stats_on_exception(s) == [s EXCEPT !.failed = @ + 1]

process_file_catches_oserror(exc) == exc \in {"OSError", "FileNotFoundError"}

\* process_file: except Exception
process_file_catches(exc) == TRUE

\* convert_video: except subprocess.CalledProcessError / except Exception
convert_video_catches(exc) == TRUE

convert_video_result_any(rc) == TRUE

\* convert_video: return process.returncode == 0
convert_video_result(rc) == rc = 0

run_return_code_zero(s) == 0

\* run: return 0 if self.stats['failed'] == 0 else 1
run_return_code(s) == IF s.failed = 0 THEN 0 ELSE 1

check_dependencies_skipped == TRUE

\* check_dependencies: shutil.which('ffmpeg')
check_dependencies == ffmpegOnPath

-----------------------------------------------------------------------------
(* The state machine.                                                      *)

\* renders counts the calls of show_encoding_progress for the file, since is
\* the wall-clock time (in ticks, up to GateTicks) since the encoder was
\* launched or since the last such call.
JobInit ==
    [file |-> None, existed |-> FALSE, probes |-> 0, launched |-> 0,
     rc |-> << >>, result |-> "none", fail_at |-> None, renders |-> 0, since |-> 0]

\* convert_video: process, before Popen has run
NoProcess ==
    [started |-> FALSE, alive |-> FALSE, rc |-> 0, stdout |-> << >>,
     stderr_full |-> FALSE, blocked |-> FALSE, written |-> 0, output |-> None]

\* The run so far, by loop index: the files recorded successful, the files for
\* which convert_video returned True and False, the encoder processes that
\* exited with code 0, and the output paths the encoder processes wrote.
HistInit ==
    [ok |-> {}, cv_true |-> {}, cv_false |-> {}, zero_exit |-> {}, writes |-> {}]

config == <<ffmpegOnPath, output_dir, output_suffix, custom_lut_file>>

locals == <<input_size, color_profile, cmd, duration, elapsed, enc>>

\* Where main() has ended: run() returned, an exception left run() ("Fatal"),
\* or KeyboardInterrupt was caught.
Terminal == {"returned", "fatal", "interrupted"}

\* The positions inside process_file (and, from cv_, inside convert_video).
JobPcs == {"pf_stat", "pf_probe", "cv_probe", "cv_popen", "cv_read", "pf_stat_out"}

\* The values of --suffix: the default, and the empty suffix.
Suffixes == {"_REC709", ""}

\* The output paths an earlier run over the same directory may have left.
EarlierOutputs == {output_path_of(f) : f \in {g \in DirNames : g.ext \in EXTENSIONS}}

MainInit ==
    /\ ffmpegOnPath \in BOOLEAN
    /\ output_dir \in {None, "out"}
    /\ output_suffix \in Suffixes
    /\ custom_lut_file \in {None, "custom.cube"}
    /\ fsOut \in SUBSET EarlierOutputs
    /\ files = << >>
    /\ i = 0
    /\ pc = "start"
    /\ stats = StatsInit
    /\ exit_status = None
    /\ input_size = None
    /\ color_profile = None
    /\ cmd = None
    /\ duration = None
    /\ elapsed = 0
    /\ enc = NoProcess
    /\ live = {}
    /\ job = JobInit
    /\ hist = HistInit
    /\ pure = None

Init == MainInit

ClearLocals ==
    /\ input_size' = None
    /\ color_profile' = None
    /\ cmd' = None
    /\ duration' = None
    /\ elapsed' = 0
    /\ enc' = NoProcess

\* An exception leaves run(): main's except Exception prints "Fatal", returns 1.
Fatal ==
    /\ pc' = "fatal"
    /\ exit_status' = 1
    /\ ClearLocals
    /\ UNCHANGED <<config, files, i, stats, job, hist, pure>>

\* The steps at which a failure makes convert_video return False.
CvFalseSteps == {"probe_in_convert", "launch", "monitor", "exit_code"}

\* process_file is over for this file: the tally, and back to run()'s loop.
EndJob(newstats, result, step) ==
    /\ stats' = newstats
    /\ job' = [job EXCEPT !.result = result, !.fail_at = step]
    /\ hist' = [hist EXCEPT
                  !.ok = IF result = "ok" THEN @ \cup {i} ELSE @,
                  !.cv_false = IF step \in CvFalseSteps THEN @ \cup {i} ELSE @]
    /\ pc' = "loop"
    /\ ClearLocals
    /\ UNCHANGED <<config, files, i, exit_status, pure>>

\* An exception raised in process_file's try block.
RaiseInProcessFile(exc, step) ==
    IF process_file_catches(exc)
    THEN EndJob(stats_on_exception(stats), "failed", step)
    ELSE Fatal

\* An exception raised in convert_video's try block: caught there, convert_video
\* returns False and process_file takes its else branch.
RaiseInConvertVideo(exc, step) ==
    IF convert_video_catches(exc)
    THEN EndJob(stats_on_false(stats), "failed", step)
    ELSE RaiseInProcessFile(exc, step)

\* run: check_dependencies
RunCheckDependencies ==
    /\ pc = "start"
    /\ IF check_dependencies
       THEN pc' = "mkdir" /\ exit_status' = exit_status
       ELSE pc' = "returned" /\ exit_status' = 1
    /\ UNCHANGED <<config, fsOut, files, i, stats, locals, live, job, hist, pure>>

\* run: self.output_dir.mkdir(parents=True, exist_ok=True), when an output
\* directory was given; mkdir may raise OSError, which leaves run().
RunMakeOutputDir ==
    /\ pc = "mkdir"
    /\ \/ /\ pc' = "discover"
          /\ UNCHANGED <<config, files, i, stats, exit_status, locals, job, hist, pure>>
       \/ /\ output_dir # None
          /\ Fatal
    /\ UNCHANGED <<fsOut, live>>

\* run: files = self.get_video_files(), and the return when there are none.
\* The listing holds every video file that exists in the input directory, and
\* the discovered files exist.
RunDiscover ==
    /\ pc = "discover"
    /\ \E listing \in Listings :
         /\ \A f \in DirNames : input_path_of(f) \in fsOut => f \in listing
         /\ files' = get_video_files(listing)
         /\ fsOut' = fsOut \cup {input_path_of(files'[k]) : k \in 1..Len(files')}
         /\ IF files' = << >>
            THEN pc' = "returned" /\ exit_status' = 1
            ELSE pc' = "loop" /\ exit_status' = exit_status
    /\ UNCHANGED <<config, i, stats, locals, live, job, hist, pure>>

\* run: the next iteration of the loop enters process_file
RunNextFile ==
    /\ pc = "loop"
    /\ i < Len(files)
    /\ i' = i + 1
    /\ job' = [JobInit EXCEPT !.file = files[i + 1],
                              !.existed = output_path_of(files[i + 1]) \in fsOut]
    /\ pc' = "pf_stat"
    /\ UNCHANGED <<config, fsOut, files, stats, exit_status, locals, live, hist, pure>>

\* run: after the loop, print_summary and the return code
RunFinish ==
    /\ pc = "loop"
    /\ i = Len(files)
    /\ exit_status' = run_return_code(stats)
    /\ pc' = "returned"
    /\ UNCHANGED <<config, fsOut, files, i, stats, locals, live, job, hist, pure>>

\* process_file: input_size = input_path.stat().st_size
PfStatInput ==
    /\ pc = "pf_stat"
    /\ \/ /\ input_size' = InputSizeOf(files[i])
          /\ pc' = "pf_probe"
          /\ UNCHANGED <<config, files, i, stats, exit_status, color_profile, cmd,
                         duration, elapsed, enc, job, hist, pure>>
       \/ RaiseInProcessFile("OSError", "input_stat")
    /\ UNCHANGED <<fsOut, live>>

\* process_file: get_video_info, detect_color_profile, the header, and the call
\* of convert_video up to build_ffmpeg_command
PfProbe ==
    /\ pc = "pf_probe"
    /\ \E resp \in ProbeResponses :
         LET got == get_video_info(resp)
             profile == detect_color_profile(got.info)
         IN  IF got.raised = None
             THEN /\ color_profile' = profile
                  /\ cmd' = build_ffmpeg_command(input_path_of(files[i]),
                                                 output_path_of(files[i]), profile)
                  /\ job' = [job EXCEPT !.probes = @ + 1]
                  /\ pc' = "cv_probe"
                  /\ UNCHANGED <<config, files, i, stats, exit_status, input_size,
                                 duration, elapsed, enc, hist, pure>>
             ELSE /\ RaiseInProcessFile(got.raised, "probe")
    /\ UNCHANGED <<fsOut, live>>

\* convert_video: video_info = self.get_video_info(input_path)
CvProbe ==
    /\ pc = "cv_probe"
    /\ \E resp \in ProbeResponses :
         LET got == get_video_info(resp)
         IN  IF got.raised = None
             THEN /\ duration' = got.info.duration
                  /\ job' = [job EXCEPT !.probes = @ + 1]
                  /\ pc' = "cv_popen"
                  /\ UNCHANGED <<config, files, i, stats, exit_status, input_size,
                                 color_profile, cmd, elapsed, enc, hist, pure>>
             ELSE /\ RaiseInConvertVideo(got.raised, "probe_in_convert")
    /\ UNCHANGED <<fsOut, live>>

\* convert_video: process = subprocess.Popen(cmd, ...); last_update = time.time()
CvPopen ==
    /\ pc = "cv_popen"
    /\ \/ /\ enc' = [NoProcess EXCEPT !.started = TRUE, !.alive = TRUE,
                                      !.output = cmd.output]
          /\ live' = live \cup {i}
          /\ elapsed' = 0
          /\ job' = [job EXCEPT !.launched = @ + 1, !.since = 0]
          /\ color_profile' = None
          /\ cmd' = None
          /\ pc' = "cv_read"
          /\ UNCHANGED <<config, files, i, stats, exit_status, input_size,
                         duration, hist, pure>>
       \/ /\ RaiseInConvertVideo("OSError", "launch")
          /\ UNCHANGED live
    /\ UNCHANGED fsOut

\* convert_video: one iteration of `for line in process.stdout`
CvReadLine ==
    /\ pc = "cv_read"
    /\ enc.stdout # << >>
    /\ LET line == Head(enc.stdout)
       IN  IF line.has_time /\ line.speed = "malformed"
           THEN RaiseInConvertVideo("ValueError", "monitor")
           ELSE IF render_due(line, elapsed) /\ show_encoding_progress_raises(duration)
           THEN RaiseInConvertVideo("ZeroDivisionError", "monitor")
           ELSE /\ enc' = [enc EXCEPT !.stdout = Tail(@)]
                /\ elapsed' = IF render_due(line, elapsed) THEN 0 ELSE elapsed
                /\ job' = IF render_due(line, elapsed)
                          THEN [job EXCEPT !.renders = @ + 1, !.since = 0]
                          ELSE job
                /\ UNCHANGED <<config, files, i, pc, stats, exit_status, input_size,
                               color_profile, cmd, duration, hist, pure>>
    /\ UNCHANGED <<fsOut, live>>

\* convert_video: the stream ends, process.wait(), return returncode == 0
CvWait ==
    /\ pc = "cv_read"
    /\ enc.stdout = << >>
    /\ ~enc.alive
    /\ IF convert_video_result(enc.rc)
       THEN /\ pc' = "pf_stat_out"
            /\ job' = [job EXCEPT !.rc = <<enc.rc>>]
            /\ hist' = [hist EXCEPT !.cv_true = @ \cup {i}]
            /\ UNCHANGED <<config, files, i, stats, exit_status, locals, pure>>
       ELSE /\ EndJob(stats_on_false(stats), "failed", "exit_code")
    /\ UNCHANGED <<fsOut, live>>

\* process_file: output_size = output_path.stat().st_size and the success tally
PfStatOutput ==
    /\ pc = "pf_stat_out"
    /\ \/ /\ output_path_of(files[i]) \in fsOut
          /\ EndJob(stats_on_success(stats, input_size, OutputSizeOf(files[i])),
                    "ok", None)
       \/ RaiseInProcessFile("OSError", "output_stat")
    /\ UNCHANGED <<fsOut, live>>

\* The encoder writes one progress line to its stdout pipe (which holds one line).
EncWriteProgress ==
    /\ enc.alive /\ ~enc.blocked
    /\ enc.stdout = << >>
    /\ enc.written < MaxLines
    /\ \E line \in ProgressLines :
         enc' = [enc EXCEPT !.stdout = <<line>>, !.written = @ + 1]
    /\ UNCHANGED <<config, fsOut, files, i, pc, stats, exit_status, input_size,
                   color_profile, cmd, duration, elapsed, live, job, hist, pure>>

\* The encoder writes to its stderr pipe, which nothing reads: the first
\* write fills it, the next one blocks.
EncWriteStderr ==
    /\ enc.alive /\ ~enc.blocked
    /\ enc' = IF enc.stderr_full
              THEN [enc EXCEPT !.blocked = TRUE]
              ELSE [enc EXCEPT !.stderr_full = TRUE]
    /\ UNCHANGED <<config, fsOut, files, i, pc, stats, exit_status, input_size,
                   color_profile, cmd, duration, elapsed, live, job, hist, pure>>

\* How the encoder process of the file at loop index j can end. With exit
\* code 0 it has written its output file; otherwise it may leave a partial
\* one. The encoder refuses an output path that is its input path: it exits
\* non-zero and writes nothing.
EncoderEnds(j) ==
    {e \in [rc : {0, 1}, wrote : BOOLEAN] :
        /\ e.rc = 0 => e.wrote
        /\ output_path_of(files[j]) = input_path_of(files[j])
             => (e.rc = 1 /\ ~e.wrote)}

\* The record of the end e of the encoder process of the file at index j.
HistExit(j, e) ==
    [hist EXCEPT
       !.zero_exit = IF e.rc = 0 THEN @ \cup {j} ELSE @,
       !.writes = IF e.wrote
                  THEN @ \cup {[by |-> j, path |-> output_path_of(files[j])]}
                  ELSE @]

\* The encoder process exits.
EncExit ==
    /\ enc.alive /\ ~enc.blocked
    /\ \E e \in EncoderEnds(i) :
         /\ enc' = [enc EXCEPT !.alive = FALSE, !.rc = e.rc]
         /\ fsOut' = IF e.wrote THEN fsOut \cup {enc.output} ELSE fsOut
         /\ hist' = HistExit(i, e)
    /\ live' = live \ {i}
    /\ UNCHANGED <<config, files, i, pc, stats, exit_status, input_size,
                   color_profile, cmd, duration, elapsed, job, pure>>

\* The encoder processes convert_video no longer holds.
Orphans == live \ (IF enc.alive THEN {i} ELSE {})

\* An encoder process that convert_video left running exits.
OrphanExit ==
    /\ pc \notin Terminal
    /\ \E j \in Orphans, e \in [rc : {0, 1}, wrote : BOOLEAN] :
         /\ e \in EncoderEnds(j)
         /\ live' = live \ {j}
         /\ fsOut' = IF e.wrote THEN fsOut \cup {output_path_of(files[j])} ELSE fsOut
         /\ hist' = HistExit(j, e)
    /\ UNCHANGED <<config, files, i, pc, stats, exit_status, locals, job, pure>>

\* Half a second of wall-clock time passes while the progress stream is read.
Tick ==
    /\ pc = "cv_read"
    /\ elapsed < GateTicks
    /\ elapsed' = elapsed + 1
    /\ job' = [job EXCEPT !.since = IF @ < GateTicks THEN @ + 1 ELSE @]
    /\ UNCHANGED <<config, fsOut, files, i, pc, stats, exit_status, input_size,
                   color_profile, cmd, duration, enc, live, hist, pure>>

\* SIGINT: KeyboardInterrupt is no Exception, so it passes process_file's and
\* convert_video's handlers and main returns 130. Nothing in the program
\* terminates the encoder child: it ends only when the signal was sent to the
\* whole process group.
Interrupt ==
    /\ pc \notin Terminal
    /\ pc # "pure"
    /\ pc' = "interrupted"
    /\ exit_status' = 130
    /\ \E group \in BOOLEAN : live' = IF group THEN {} ELSE live
    /\ ClearLocals
    /\ UNCHANGED <<config, fsOut, files, i, stats, job, hist, pure>>

MainNext ==
    \/ RunCheckDependencies
    \/ RunMakeOutputDir
    \/ RunDiscover
    \/ RunNextFile
    \/ RunFinish
    \/ PfStatInput
    \/ PfProbe
    \/ CvProbe
    \/ CvPopen
    \/ CvReadLine
    \/ CvWait
    \/ PfStatOutput
    \/ EncWriteProgress
    \/ EncWriteStderr
    \/ EncExit
    \/ OrphanExit
    \/ Tick
    \/ Interrupt

Next == MainNext

Spec == Init /\ [][Next]_vars

-----------------------------------------------------------------------------
(* The pure functions on their own: the classifier on every combination of *)
(* field values, the filter selection on every profile value and override. *)

ColorSpaces == {S_unknown, S_bt709, S_BT709, S_bt2020nc, S_dlogm, S_DLog, S_smpte}

ColorPrimaries == {S_unknown, S_bt709, S_BT709, S_bt2020, S_smpte}

ColorTransfers ==
    {S_unknown, S_arib, S_HLG, S_hlg, S_bt709, S_srgb, S_dlog, S_dlogm, S_smpte}

CodecNames == {S_unknown, S_h264, S_h265, S_hevc, S_HEVC, S_prores, S_h264b}

PureInfos ==
    {[VideoInfo EXCEPT !.color_space = cs, !.color_primaries = cp,
                       !.color_transfer = ct, !.codec_name = cn] :
        cs \in ColorSpaces, cp \in ColorPrimaries,
        ct \in ColorTransfers, cn \in CodecNames}

\* The profile values build_ffmpeg_command may be called with: the four tags
\* and values that are none of them.
ProfileValues == {"dlogm", "hlg", "rec709", "unknown", "HLG", ""}

LutValues == {None, "", "custom.cube", "luts/other.cube"}

PureInit ==
    /\ ffmpegOnPath = TRUE
    /\ output_dir = None
    /\ output_suffix = "_REC709"
    /\ fsOut = {}
    /\ files = << >>
    /\ i = 0
    /\ pc = "pure"
    /\ stats = StatsInit
    /\ exit_status = None
    /\ input_size = None
    /\ color_profile = None
    /\ cmd = None
    /\ duration = None
    /\ elapsed = 0
    /\ enc = NoProcess
    /\ live = {}
    /\ job = JobInit
    /\ hist = HistInit
    /\ \/ /\ custom_lut_file = None
          /\ pure \in {[op |-> "classify", video_info |-> v, profile |-> "",
                        done |-> FALSE, result |-> ""] : v \in PureInfos}
       \/ /\ custom_lut_file \in LutValues
          /\ pure \in {[op |-> "plan", video_info |-> VideoInfo, profile |-> p,
                        done |-> FALSE, result |-> ""] : p \in ProfileValues}

PureClassify ==
    /\ pc = "pure"
    /\ pure.op = "classify" /\ ~pure.done
    /\ pure' = [pure EXCEPT !.done = TRUE,
                            !.result = detect_color_profile(pure.video_info)]
    /\ UNCHANGED <<config, fsOut, files, i, pc, stats, exit_status, locals, live, job,
                   hist>>

PurePlan ==
    /\ pc = "pure"
    /\ pure.op = "plan" /\ ~pure.done
    /\ pure' = [pure EXCEPT !.done = TRUE,
                  !.result = build_ffmpeg_command(None, None, pure.profile).vf]
    /\ UNCHANGED <<config, fsOut, files, i, pc, stats, exit_status, locals, live, job,
                   hist>>

PureNext == PureClassify \/ PurePlan

SpecPure == PureInit /\ [][PureNext]_vars

-----------------------------------------------------------------------------
(* Properties.                                                             *)

\* The number of files whose process_file call has finished.
Completed == IF i > 0 /\ job.result = "none" THEN i - 1 ELSE i

\* run() has returned after its loop (not by one of the two early returns).
ReturnedAfterLoop == pc = "returned" /\ ffmpegOnPath /\ files # << >>

\* C1: successful + failed never exceeds the number of discovered files and
\* counts exactly the files processed so far, neither counter ever goes
\* down, and when run() returns after the loop the sum is the number of files.
C1_TallyOncePerFile ==
    /\ [](/\ stats.successful + stats.failed = Completed
          /\ stats.successful + stats.failed <= Len(files)
          /\ (ReturnedAfterLoop => stats.successful + stats.failed = Len(files)))
    /\ [][/\ stats'.successful >= stats.successful
          /\ stats'.failed >= stats.failed
          /\ stats'.successful + stats'.failed <= stats.successful + stats.failed + 1]_vars

C1_Witness ==
    /\ ReturnedAfterLoop
    /\ Len(files) = 2
    /\ stats.successful = 1
    /\ stats.failed = 1

\* C2: an error in a job (input stat, probe, launch, monitoring, exit code,
\* output stat) ends that job as failed and returns to the loop, which goes
\* on with the next file in order; no exception leaves run() once a job has
\* started, and run() returns only after the last file.
C2_NoJobErrorAbortsBatch ==
    /\ [][(job.result = "none" /\ job'.result = "failed")
            => /\ pc' = "loop"
               /\ i' = i
               /\ files' = files
               /\ stats'.failed = stats.failed + 1]_vars
    /\ [][i' = i \/ (i' = i + 1 /\ pc = "loop" /\ job'.file = files[i + 1])]_vars
    /\ [](pc = "fatal" => i = 0)
    /\ [](pc = "returned" => i = Len(files) /\ Completed = Len(files))

C2_Witness ==
    /\ ReturnedAfterLoop
    /\ i = 2
    /\ stats.failed = 1
    /\ job.result = "ok"

\* C3: at most one encoder process is alive at any time.
C3_OneEncoderLive == Cardinality(live) <= 1

\* C4 as stated: a file whose output path exists when its job starts is
\* skipped: no encoder is launched for it.
C4_SkipsExistingOutput == job.existed => job.launched = 0

\* C4 as the code has it: an existing output changes nothing. Such a file is
\* counted successful only after the encoder was launched for it in this run
\* (with -y) and exited with code 0.
C4_ExistingOutputIsReencoded ==
    /\ (job.existed /\ job.result = "ok") => (job.launched = 1 /\ job.rc = <<0>>)
    /\ (job.existed /\ pc = "cv_popen") => cmd.overwrite

C4_Witness ==
    /\ job.existed
    /\ job.result = "ok"
    /\ job.launched = 1

\* C5: when run() returns after the loop, the status is 0 iff no file was
\* recorded as failed, and 1 otherwise.
C5_ExitStatusIffNoFailure ==
    ReturnedAfterLoop =>
        /\ exit_status \in {0, 1}
        /\ (exit_status = 0 <=> stats.failed = 0)

C5_Witness ==
    /\ ReturnedAfterLoop
    /\ stats.failed > 0
    /\ stats.successful > 0
    /\ exit_status = 1

\* No job has started: nothing was launched and nothing was counted.
NothingRun == i = 0 /\ job = JobInit /\ live = {} /\ stats = StatsInit

\* C6 as stated: a run that ends before the first job ends by run() returning
\* 1, and only because the encoder is missing or no file was discovered.
C6_OnlyTwoEarlyExits ==
    (pc \in {"returned", "fatal"} /\ i = 0) =>
        /\ pc = "returned"
        /\ exit_status = 1
        /\ (~ffmpegOnPath \/ files = << >>)

\* C6 as the code has it: without the encoder, or with no file discovered,
\* run() returns 1 and nothing is ever launched or counted; a run also ends
\* before the first job when mkdir of the output directory raises (status 1)
\* or on an interruption (status 130), and in no other way.
C6_EarlyExits ==
    /\ ~ffmpegOnPath =>
          /\ NothingRun
          /\ pc \in {"start", "returned", "interrupted"}
          /\ (pc = "returned" => exit_status = 1)
    /\ (pc = "returned" /\ files = << >>) => (NothingRun /\ exit_status = 1)
    /\ (pc \in Terminal /\ i = 0) =>
          /\ NothingRun
          /\ \/ pc = "returned" /\ exit_status = 1 /\ ~ffmpegOnPath
             \/ pc = "returned" /\ exit_status = 1 /\ ffmpegOnPath /\ files = << >>
             \/ pc = "fatal" /\ exit_status = 1 /\ ffmpegOnPath /\ output_dir # None
             \/ pc = "interrupted" /\ exit_status = 130

C6_Witness ==
    /\ pc = "returned"
    /\ ffmpegOnPath
    /\ files = << >>
    /\ exit_status = 1
    /\ NothingRun

\* C7: no file is recorded as failed at a probe.
C7_ProbeNeverFailsFile == job.fail_at \notin {"probe", "probe_in_convert"}

\* C8: after an interruption no encoder process is left alive and the status
\* is 130.
C8_InterruptEndsEncoder ==
    pc = "interrupted" => (live = {} /\ exit_status = 130)

-----------------------------------------------------------------------------
(* Properties of the pure functions, under SpecPure.                       *)

Has(sub, field) == Contains(sub, Lower(field))

HlgRule(v) == Has(S_arib, v.color_transfer) \/ Has(S_hlg, v.color_transfer)

DlogmRule(v) ==
    \/ Has(S_dlogm, v.color_space) \/ Has(S_dlog, v.color_space)
    \/ Has(S_dlogm, v.color_transfer) \/ Has(S_dlog, v.color_transfer)
    \/ /\ Has(S_bt709, v.color_primaries)
       /\ Has(S_unknown, v.color_transfer)
       /\ \E c \in {S_h264, S_h265, S_hevc} : Lower(v.codec_name) = c

Rec709Rule(v) ==
    \/ Has(S_bt709, v.color_space) \/ Has(S_bt709, v.color_primaries)
    \/ Has(S_bt709, v.color_transfer) \/ Has(S_srgb, v.color_transfer)

\* C9: the classifier returns one of the four tags for every record, by the
\* rules in order, first match wins: HLG, else DLogM, else Rec709, else
\* Unknown; an all-unknown record is Unknown.
C9_ClassifierRuleOrder ==
    (pure.op = "classify" /\ pure.done) =>
        LET v == pure.video_info
            r == pure.result
        IN  /\ r \in {"hlg", "dlogm", "rec709", "unknown"}
            /\ HlgRule(v) => r = "hlg"
            /\ (~HlgRule(v) /\ DlogmRule(v)) => r = "dlogm"
            /\ (~HlgRule(v) /\ ~DlogmRule(v) /\ Rec709Rule(v)) => r = "rec709"
            /\ (~HlgRule(v) /\ ~DlogmRule(v) /\ ~Rec709Rule(v)) => r = "unknown"
            /\ v = VideoInfo => r = "unknown"

C9_Witness ==
    /\ pure.op = "classify"
    /\ pure.done
    /\ HlgRule(pure.video_info)
    /\ DlogmRule(pure.video_info)
    /\ pure.result = "hlg"

\* C10: with an override LUT path the filter is the lookup-table stage of
\* that path whatever the profile; without one, DLogM and HLG get their own
\* LUT stage, Rec709 gets 'scale', and every other value the DLogM stage.
C10_FilterPlan ==
    (pure.op = "plan" /\ pure.done) =>
        LET p == pure.profile
            r == pure.result
        IN  IF custom_lut_file \notin {None, ""}
            THEN r = "lut3d='" \o custom_lut_file \o "'"
            ELSE /\ p = "dlogm" => r = "lut3d='luts/DJI_DLogM_to_Rec709.cube'"
                 /\ p = "hlg" => r = "lut3d='luts/iPhone_2020_to_709_33.cube'"
                 /\ p = "rec709" => r = "scale"
                 /\ p \notin {"dlogm", "hlg", "rec709"}
                      => r = "lut3d='luts/DJI_DLogM_to_Rec709.cube'"

C10_Witness ==
    /\ pure.op = "plan"
    /\ pure.done
    /\ custom_lut_file = "custom.cube"
    /\ pure.profile = "rec709"
    /\ pure.result = "lut3d='custom.cube'"

-----------------------------------------------------------------------------
(* Properties of the job runner and of the batch driver, under Spec.       *)

\* C11: convert_video reports success iff the encoder process it launched
\* exits with code zero: every file for which it returned True has an encoder
\* that exited 0, and no file for which it returned False (a process that was
\* never started included) has an encoder that exits 0.
C11_SuccessIffExitZero ==
    /\ hist.cv_true \subseteq hist.zero_exit
    /\ hist.cv_false \cap hist.zero_exit = {}

\* C12: no failure while reading or rendering progress ends the job: no file
\* is recorded as failed at the monitoring step.
C12_MonitoringNeverAborts == job.fail_at # "monitor"

\* C13: progress rendering is gated by wall-clock time. A render happens
\* only for a line with an elapsed-time marker, and only when at least 0.5 s
\* have passed since the encoder was launched or since the previous render
\* of the job, however many lines arrive; the time since then starts again
\* at each render.
C13_RenderGate ==
    [][job'.renders > job.renders =>
         /\ pc = "cv_read"
         /\ enc.stdout # << >>
         /\ Head(enc.stdout).has_time
         /\ job.since >= GateTicks
         /\ job'.renders = job.renders + 1
         /\ job'.since = 0]_vars

C13_Witness ==
    /\ job.renders = 2
    /\ job.launched = 1
    /\ job.since = 0

\* The input sizes and the output sizes of the files at the loop indices S.
RECURSIVE SumInputSizes(_)
SumInputSizes(S) ==
    IF S = {} THEN 0
    ELSE LET k == CHOOSE k \in S : TRUE
         IN  InputSizeOf(files[k]) + SumInputSizes(S \ {k})

RECURSIVE SumOutputSizes(_)
SumOutputSizes(S) ==
    IF S = {} THEN 0
    ELSE LET k == CHOOSE k \in S : TRUE
         IN  OutputSizeOf(files[k]) + SumOutputSizes(S \ {k})

\* C14: the byte accumulators change only on success. A job recorded as
\* failed (at whatever step, the output stat after a zero exit code included)
\* leaves stats.input_size, stats.output_size and stats.successful as they
\* were, a successful job adds its own input size and output size, and at
\* every moment, so at run completion, each accumulator is the sum over the
\* jobs recorded successful.
C14_SizesOnlyOnSuccess ==
    /\ [](/\ stats.successful = Cardinality(hist.ok)
          /\ stats.input_size = SumInputSizes(hist.ok)
          /\ stats.output_size = SumOutputSizes(hist.ok))
    /\ [][(job.result = "none" /\ job'.result = "failed") =>
            /\ stats'.input_size = stats.input_size
            /\ stats'.output_size = stats.output_size
            /\ stats'.successful = stats.successful]_vars
    /\ [][(job.result = "none" /\ job'.result = "ok") =>
            /\ stats'.input_size = stats.input_size + InputSizeOf(job.file)
            /\ stats'.output_size = stats.output_size + OutputSizeOf(job.file)
            /\ stats'.successful = stats.successful + 1
            /\ stats'.failed = stats.failed]_vars
    /\ [][stats' = stats \/ job'.result \in {"ok", "failed"}]_vars

C14_Witness ==
    /\ ReturnedAfterLoop
    /\ hist.ok = {1}
    /\ job.fail_at = "output_stat"
    /\ job.rc = <<0>>
    /\ stats.input_size = 4
    /\ stats.output_size = 2

\* C15: the probe is run once per input file: at most one probe process
\* during a job, and exactly one for a job whose encoder was launched.
C15_OneProbePerFile ==
    /\ job.probes <= 1
    /\ job.launched > 0 => job.probes = 1

\* The output directory of a job: the one given, or the input directory.
OutputDirectory == IF output_dir # None THEN output_dir ELSE "in"

\* C16 as stated: the output file of a job is named {stem}{suffix}{ext} with
\* the extension of its input file.
C16_OutputKeepsExtension ==
    /\ pc \in {"cv_probe", "cv_popen"} =>
          cmd.output = [dir |-> OutputDirectory,
                        name |-> job.file.stem \o output_suffix \o job.file.ext]
    /\ enc.started =>
          enc.output = [dir |-> OutputDirectory,
                        name |-> job.file.stem \o output_suffix \o job.file.ext]

\* C16 as the code has it: the output file of a job is named
\* {stem}{suffix}.mp4 whatever the extension of its input file, in the output
\* directory when one was given and in the input directory otherwise; this is
\* the path in the encoder's command line and the path the encoder writes.
C16_OutputIsMp4 ==
    /\ pc \in {"cv_probe", "cv_popen"} =>
          cmd.output = [dir |-> OutputDirectory,
                        name |-> job.file.stem \o output_suffix \o ".mp4"]
    /\ enc.started =>
          enc.output = [dir |-> OutputDirectory,
                        name |-> job.file.stem \o output_suffix \o ".mp4"]
    /\ \A w \in hist.writes :
          w.path = [dir |-> OutputDirectory,
                    name |-> files[w.by].stem \o output_suffix \o ".mp4"]

C16_Witness ==
    /\ job.result = "ok"
    /\ job.file = [stem |-> "a", ext |-> ".mov"]
    /\ output_dir = "out"
    /\ [by |-> i, path |-> [dir |-> "out", name |-> "a_REC709.mp4"]] \in hist.writes

\* C17: one output file per successful job: no two jobs of a run write the
\* same output path, and when run() returns after the loop the number of
\* distinct output paths of the successful jobs is stats.successful.
C17_OneOutputPerSuccess ==
    /\ \A w1, w2 \in hist.writes : w1.path = w2.path => w1.by = w2.by
    /\ ReturnedAfterLoop =>
          Cardinality({output_path_of(files[k]) : k \in hist.ok}) = stats.successful

\* C18: with the output directory unset, no encoder of the run writes the
\* path of a discovered input file that is being converted or still waits to
\* be converted.
C18_NoInputOverwritten ==
    output_dir = None =>
        \A w \in hist.writes :
            \A k \in w.by..Len(files) : w.path # input_path_of(files[k])

\* C19: the job runner and the encoder never block on each other: the runner
\* waiting for the next progress line while the encoder, still alive, is
\* blocked writing to the pipe the runner does not read.
C19_NoMutualBlock ==
    ~(pc = "cv_read" /\ enc.alive /\ enc.blocked /\ enc.stdout = << >>)

====
